---- MODULE Spec2Model ----
(***************************************************************************)
(* Session provider, route guard (Dashboard), navigation bar and top-level *)
(* error boundary of the frummy-supabase front end, as a state machine.    *)
(*                                                                         *)
(* The identity service is the external collaborator: it holds the real    *)
(* session, answers the initial session request, answers the sign-out      *)
(* request and pushes session-change notifications to the registered       *)
(* listener.  Requests and notifications are asynchronous: each is a       *)
(* message in flight that the event loop handles in a later step.          *)
(***************************************************************************)
EXTENDS Integers, Sequences, FiniteSets, TLC

VARIABLES
  svcSession,      \* identity service: the session it currently holds
  events,          \* notifications pushed to the listener, not yet handled
  subscribed,      \* the provider's change listener is registered
  initReq,         \* initial session request: idle, pending, ok, fail, done
  initResult,      \* the session carried by the answer in flight
  signOutReq,      \* sign-out request: idle, pending, ok, fail
  session,         \* AuthProvider: cached session
  loading,         \* AuthProvider: TRUE while the loading flag is unknown
  hasError,        \* ErrorBoundary state.hasError
  error,           \* ErrorBoundary state.error
  route,           \* the route the router shows
  href,            \* window.location.href assigned and not yet loaded
  redirects,       \* guard redirects issued since the page was loaded (counted up to MaxRedirects)
  rendered,        \* what the last render put on the screen
  mobileMenuOpen,  \* Nav: mobile menu state
  showSkeletons,   \* Dashboard: local state of the skeleton demo
  uncaught,        \* an error thrown out of an event handler, reported to the console
  lastEvent,       \* session of the notification handled last in this mount
  settledBy        \* what wrote the provider state last in this mount

vars ==
  <<svcSession, events, subscribed, initReq, initResult, signOutReq, session,
    loading, hasError, error, route, href, redirects,
    rendered, mobileMenuOpen, showSkeletons, uncaught, lastEvent,
    settledBy>>

svcVars ==
  <<svcSession, events, subscribed, initReq, initResult, signOutReq>>

providerVars ==
  <<session, loading, lastEvent, settledBy>>

boundaryVars ==
  <<hasError, error>>

browserVars ==
  <<route, href, redirects, rendered>>

navVars ==
  <<mobileMenuOpen, uncaught>>

----------------------------------------------------------------------------
(* Bounds *)

MaxEvents ==
  1

MaxRedirects ==
  2

----------------------------------------------------------------------------
(* Values *)

None ==
  "none"

NoEvent ==
  "noevent"

Users ==
  { "user1", "user2" }

\* a session is identified by the user it holds
Sessions ==
  { "session1", "session2" }

\* session.user
SessionUser(s) ==
  IF s = "session1" THEN "user1" ELSE "user2"

\* user.email
Email(u) ==
  IF u = "user1" THEN "a@example.com" ELSE "b@example.com"

Errors ==
  { "render error" }

LoginPath ==
  "/auth/login"

DashboardPath ==
  "/dashboard"

HomePath ==
  "/"

Routes ==
  { HomePath, DashboardPath, LoginPath }

\* useAuth().user: the user of the cached session, or absent
UserOf(s) ==
  IF s = None THEN None ELSE SessionUser(s)

----------------------------------------------------------------------------
(* The guarded view *)

\* faulty variant: the account card shows no email
DashboardNoEmail(user, isLoading) ==
  IF isLoading
    THEN [out |-> "Loading", redirect |-> None, email |-> None]
    ELSE IF user = None
      THEN [out |-> "null", redirect |-> LoginPath, email |-> None]
      ELSE [out |-> "DashboardLayout", redirect |-> None, email |-> None]

\* faulty variant: the loading check is missing
DashboardNoLoadingCheck(user, isLoading) ==
  IF user = None
    THEN [out |-> "null", redirect |-> LoginPath, email |-> None]
    ELSE [out |-> "DashboardLayout", redirect |-> None, email |-> Email(user)]

\* faulty variant: the guard redirects to the landing page
DashboardWrongPath(user, isLoading) ==
  IF isLoading
    THEN [out |-> "Loading", redirect |-> None, email |-> None]
    ELSE IF user = None
      THEN [out |-> "null", redirect |-> HomePath, email |-> None]
      ELSE [out |-> "DashboardLayout", redirect |-> None, email |-> Email(user)]

\* faulty variant: the guard returns null without redirecting
DashboardNoRedirect(user, isLoading) ==
  IF isLoading
    THEN [out |-> "Loading", redirect |-> None, email |-> None]
    ELSE IF user = None
      THEN [out |-> "null", redirect |-> None, email |-> None]
      ELSE [out |-> "DashboardLayout", redirect |-> None, email |-> Email(user)]

\* Dashboard(): what one call of the component returns and the assignment to
\* window.location.href it makes
Dashboard(user, isLoading) ==
  IF isLoading
    THEN [out |-> "Loading", redirect |-> None, email |-> None]
    ELSE IF user = None
      THEN [out |-> "null", redirect |-> LoginPath, email |-> None]
      ELSE [out |-> "DashboardLayout", redirect |-> None, email |-> Email(user)]

\* Nav(): which set of controls the bar shows
Nav(user) ==
  IF user # None THEN "signedIn" ELSE "signedOut"

NotMounted ==
  [out |-> "unmounted", redirect |-> None, email |-> None]

\* One render of the tree under AuthProvider: the Outlet shows the Dashboard
\* on its route; the navigation bar is part of every page that shows content.
RenderTree(r, s, l) ==
  LET d == IF r = DashboardPath THEN Dashboard(UserOf(s), l) ELSE NotMounted
  IN  [ screen   |-> "tree",
        loading  |-> l,
        user     |-> UserOf(s),
        out      |-> d.out,
        redirect |-> d.redirect,
        email    |-> d.email,
        nav      |-> IF r # DashboardPath \/ d.out = "DashboardLayout"
                       THEN Nav(UserOf(s)) ELSE "hidden" ]

NothingRendered ==
  [ screen |-> "blank", loading |-> TRUE, user |-> None, out |-> "unmounted",
    redirect |-> None, email |-> None, nav |-> "hidden" ]

ErrorScreen ==
  [ screen |-> "Oops!", loading |-> TRUE, user |-> None, out |-> "unmounted",
    redirect |-> None, email |-> None, nav |-> "hidden" ]

----------------------------------------------------------------------------
(* Rendering *)

\* faulty variant: the view's state is created anew whenever the guard starts
\* to pass, as if the protected content were mounted again
CommitRemountsContent(r, s, l) ==
  IF <<r, s, l>> = <<route, session, loading>>
    THEN UNCHANGED <<rendered, href, redirects, showSkeletons>>
    ELSE LET t == RenderTree(r, s, l)
         IN  /\ rendered' = t
             /\ showSkeletons' =
                  (r = route /\ rendered.out = "DashboardLayout" /\ showSkeletons)
             /\ IF t.redirect # None
                  THEN /\ href' = t.redirect
                       /\ redirects' = IF redirects < MaxRedirects
                                          THEN redirects + 1 ELSE redirects
                  ELSE UNCHANGED <<href, redirects>>

\* React renders the tree again when the state a component reads has changed
\* (a state setter given the value already held schedules nothing).  A guard
\* redirect is the assignment to window.location.href made during the render.
Commit(r, s, l) ==
  IF <<r, s, l>> = <<route, session, loading>>
    THEN UNCHANGED <<rendered, href, redirects, showSkeletons>>
    ELSE LET t == RenderTree(r, s, l)
         IN  /\ rendered' = t
             /\ showSkeletons' = (r = route /\ showSkeletons)
             /\ IF t.redirect # None
                  THEN /\ href' = t.redirect
                       /\ redirects' = IF redirects < MaxRedirects
                                          THEN redirects + 1 ELSE redirects
                  ELSE UNCHANGED <<href, redirects>>

\* the first render of a newly mounted tree
FirstCommit(r) ==
  /\ rendered' = RenderTree(r, None, TRUE)
  /\ showSkeletons' = FALSE
  /\ redirects' = 0

----------------------------------------------------------------------------
(* Initial state: the document has just been loaded, RootComponent is      *)
(* mounted and rendered once, the provider has issued its session request  *)
(* and registered its listener.                                            *)

TypeOK ==
  /\ svcSession \in Sessions \cup {None}
  /\ events \in Seq(Sessions \cup {None})
  /\ Len(events) <= MaxEvents
  /\ subscribed \in BOOLEAN
  /\ initReq \in {"idle", "pending", "ok", "fail", "done"}
  /\ initResult \in Sessions \cup {None}
  /\ signOutReq \in {"idle", "pending", "ok", "fail"}
  /\ session \in Sessions \cup {None}
  /\ loading \in BOOLEAN
  /\ hasError \in BOOLEAN
  /\ error \in Errors \cup {None}
  /\ route \in Routes
  /\ href \in Routes \cup {None}
  /\ redirects \in 0..MaxRedirects
  /\ mobileMenuOpen \in BOOLEAN
  /\ showSkeletons \in BOOLEAN
  /\ uncaught \in BOOLEAN
  /\ lastEvent \in Sessions \cup {None, NoEvent}
  /\ settledBy \in {"nothing", "initOk", "initFail", "event"}

Init ==
  /\ svcSession \in Sessions \cup {None}
  /\ events = <<>>
  /\ subscribed = TRUE
  /\ initReq = "pending"
  /\ initResult = None
  /\ signOutReq = "idle"
  /\ session = None
  /\ loading = TRUE
  /\ hasError = FALSE
  /\ error = None
  /\ route \in {HomePath, DashboardPath}
  /\ href = None
  /\ redirects = 0
  /\ rendered = RenderTree(route, None, TRUE)
  /\ mobileMenuOpen = FALSE
  /\ showSkeletons = FALSE
  /\ uncaught = FALSE
  /\ lastEvent = NoEvent
  /\ settledBy = "nothing"

----------------------------------------------------------------------------
(* Identity service *)

\* a session-change notification reaches the listener only while it is
\* registered
CanPush ==
  subscribed => Len(events) < MaxEvents

Push(e) ==
  events' = IF subscribed THEN Append(events, e) ELSE events

\* a sign-in completes at the identity service (login page, another tab)
SvcSignIn ==
  \E s \in Sessions :
    /\ CanPush
    /\ svcSession' = s
    /\ Push(s)
    /\ UNCHANGED <<subscribed, initReq, initResult, signOutReq>>
    /\ UNCHANGED <<providerVars, boundaryVars, browserVars, navVars, showSkeletons>>

\* the session ends at the identity service without this page asking for it
\* (expiry, sign-out in another tab)
SvcSessionEnds ==
  /\ svcSession # None
  /\ CanPush
  /\ svcSession' = None
  /\ Push(None)
  /\ UNCHANGED <<subscribed, initReq, initResult, signOutReq>>
  /\ UNCHANGED <<providerVars, boundaryVars, browserVars, navVars, showSkeletons>>

\* token refresh: the current session is pushed again
SvcTokenRefresh ==
  /\ svcSession # None
  /\ subscribed
  /\ CanPush
  /\ Push(svcSession)
  /\ UNCHANGED <<svcSession, subscribed, initReq, initResult, signOutReq>>
  /\ UNCHANGED <<providerVars, boundaryVars, browserVars, navVars, showSkeletons>>

\* the identity service answers the initial session request: with the
\* session it holds at that moment, or with a failure
SvcAnswerInit ==
  /\ initReq = "pending"
  /\ \/ /\ initReq' = "ok"
        /\ initResult' = svcSession
     \/ /\ initReq' = "fail"
        /\ initResult' = None
  /\ UNCHANGED <<svcSession, events, subscribed, signOutReq>>
  /\ UNCHANGED <<providerVars, boundaryVars, browserVars, navVars, showSkeletons>>

\* faulty variant: the confirmation pushes no notification
SvcConfirmSignOutNoPush ==
  /\ signOutReq = "pending"
  /\ signOutReq' = "ok"
  /\ svcSession' = None
  /\ UNCHANGED <<events, subscribed, initReq, initResult>>
  /\ UNCHANGED <<providerVars, boundaryVars, browserVars, navVars, showSkeletons>>

\* the identity service terminates the session and confirms; the listener is
\* pushed the "no session" update
SvcConfirmSignOut ==
  /\ signOutReq = "pending"
  /\ CanPush
  /\ signOutReq' = "ok"
  /\ svcSession' = None
  /\ Push(None)
  /\ UNCHANGED <<subscribed, initReq, initResult>>
  /\ UNCHANGED <<providerVars, boundaryVars, browserVars, navVars, showSkeletons>>

\* the sign-out request fails (network error, rejection)
SvcFailSignOut ==
  /\ signOutReq = "pending"
  /\ signOutReq' = "fail"
  /\ UNCHANGED <<svcSession, events, subscribed, initReq, initResult>>
  /\ UNCHANGED <<providerVars, boundaryVars, browserVars, navVars, showSkeletons>>

----------------------------------------------------------------------------
(* Session provider *)

\* mount: state as constructed, one session request, listener registered
AuthProviderMount ==
  /\ session' = None
  /\ loading' = TRUE
  /\ initReq' = "pending"
  /\ initResult' = None
  /\ subscribed' = TRUE
  /\ events' = <<>>
  /\ lastEvent' = NoEvent
  /\ settledBy' = "nothing"

\* faulty variant: teardown leaves the listener registered with the service
AuthProviderUnmountKeepsListener ==
  /\ session' = None
  /\ loading' = TRUE
  /\ initReq' = "idle"
  /\ initResult' = None
  /\ subscribed' = TRUE
  /\ events' = events
  /\ lastEvent' = NoEvent
  /\ settledBy' = "nothing"

\* teardown: the listener is deregistered; an answer still in flight finds no
\* provider to update
AuthProviderUnmount ==
  /\ session' = None
  /\ loading' = TRUE
  /\ initReq' = "idle"
  /\ initResult' = None
  /\ subscribed' = FALSE
  /\ events' = <<>>
  /\ lastEvent' = NoEvent
  /\ settledBy' = "nothing"

\* the initial session request resolves
InitComplete ==
  /\ initReq = "ok"
  /\ session' = initResult
  /\ loading' = FALSE
  /\ initReq' = "done"
  /\ initResult' = None
  /\ settledBy' = "initOk"
  /\ Commit(route, initResult, FALSE)
  /\ UNCHANGED <<svcSession, events, subscribed, signOutReq, lastEvent>>
  /\ UNCHANGED <<boundaryVars, route, navVars>>

\* faulty variant: a failed request leaves the flag unknown
InitFailedStaysUnknown ==
  /\ initReq = "fail"
  /\ initReq' = "done"
  /\ initResult' = None
  /\ settledBy' = "initFail"
  /\ UNCHANGED <<session, loading>>
  /\ UNCHANGED <<svcSession, events, subscribed, signOutReq, lastEvent>>
  /\ UNCHANGED <<boundaryVars, browserVars, navVars, showSkeletons>>

\* the initial session request fails: the provider resolves to "no session"
InitFailed ==
  /\ initReq = "fail"
  /\ session' = None
  /\ loading' = FALSE
  /\ initReq' = "done"
  /\ initResult' = None
  /\ settledBy' = "initFail"
  /\ Commit(route, None, FALSE)
  /\ UNCHANGED <<svcSession, events, subscribed, signOutReq, lastEvent>>
  /\ UNCHANGED <<boundaryVars, route, navVars>>

\* faulty variant: a "no session" push puts the flag back to unknown
onAuthStateChangeResets ==
  /\ subscribed
  /\ events # <<>>
  /\ session' = Head(events)
  /\ loading' = (Head(events) = None)
  /\ events' = Tail(events)
  /\ lastEvent' = Head(events)
  /\ settledBy' = "event"
  /\ Commit(route, Head(events), Head(events) = None)
  /\ UNCHANGED <<svcSession, subscribed, initReq, initResult, signOutReq>>
  /\ UNCHANGED <<boundaryVars, route, navVars>>

\* the change listener: every push updates the cached session and resolves
\* the loading flag
onAuthStateChange ==
  /\ subscribed
  /\ events # <<>>
  /\ session' = Head(events)
  /\ loading' = FALSE
  /\ events' = Tail(events)
  /\ lastEvent' = Head(events)
  /\ settledBy' = "event"
  /\ Commit(route, Head(events), FALSE)
  /\ UNCHANGED <<svcSession, subscribed, initReq, initResult, signOutReq>>
  /\ UNCHANGED <<boundaryVars, route, navVars>>

\* the sign-out operation: requests session termination, nothing else
signOut ==
  /\ signOutReq = "idle"
  /\ signOutReq' = "pending"
  /\ UNCHANGED <<svcSession, events, subscribed, initReq, initResult>>
  /\ UNCHANGED <<providerVars, boundaryVars, browserVars, showSkeletons>>

\* faulty variant: the provider clears its session when sign-out returns
SignOutReturnClearsSession ==
  /\ signOutReq \in {"ok", "fail"}
  /\ signOutReq' = "idle"
  /\ session' = None
  /\ Commit(route, None, loading)
  /\ UNCHANGED <<svcSession, events, subscribed, initReq, initResult>>
  /\ UNCHANGED <<loading, lastEvent, settledBy>>
  /\ UNCHANGED <<boundaryVars, route, navVars>>

\* the awaited sign-out request returns, confirmed or failed: the provider
\* does nothing with the outcome
SignOutReturn ==
  /\ signOutReq \in {"ok", "fail"}
  /\ signOutReq' = "idle"
  /\ UNCHANGED <<svcSession, events, subscribed, initReq, initResult>>
  /\ UNCHANGED <<providerVars, boundaryVars, browserVars, navVars, showSkeletons>>

----------------------------------------------------------------------------
(* Error boundary, browser *)

\* faulty variant: the derived state keeps the error but not the flag
getDerivedStateFromErrorNoFlag(e) ==
  [hasError |-> FALSE, error |-> e]

\* ErrorBoundary.getDerivedStateFromError
getDerivedStateFromError(e) ==
  [hasError |-> TRUE, error |-> e]

\* ErrorBoundary.render: the failure screen while hasError, the children
\* otherwise
ErrorBoundaryRender(hasErr, children) ==
  IF hasErr THEN ErrorScreen ELSE children

\* faulty variant: the boundary enters the error state and leaves its children
\* mounted
RenderThrowsKeepsChildren ==
  \E e \in Errors :
    /\ subscribed
    /\ ~hasError
    /\ hasError' = getDerivedStateFromError(e).hasError
    /\ error' = getDerivedStateFromError(e).error
    /\ rendered' = ErrorBoundaryRender(getDerivedStateFromError(e).hasError,
                                       NothingRendered)
    /\ mobileMenuOpen' = FALSE
    /\ showSkeletons' = FALSE
    /\ UNCHANGED <<svcVars, providerVars, route, href, redirects, uncaught>>

\* a component under the boundary throws while rendering: the boundary takes
\* the derived state and shows the failure screen in place of its children,
\* which are unmounted
RenderThrows ==
  \E e \in Errors :
    /\ subscribed
    /\ ~hasError
    /\ hasError' = getDerivedStateFromError(e).hasError
    /\ error' = getDerivedStateFromError(e).error
    /\ AuthProviderUnmount
    /\ rendered' = ErrorBoundaryRender(getDerivedStateFromError(e).hasError,
                                       NothingRendered)
    /\ mobileMenuOpen' = FALSE
    /\ showSkeletons' = FALSE
    /\ UNCHANGED <<svcSession, signOutReq, route, href, redirects, uncaught>>

\* a sign-out request outlives the provider that issued it: the identity
\* service still answers it, but an answer already in flight returns to no
\* mounted provider
OrphanedSignOut ==
  IF signOutReq = "pending" THEN "pending" ELSE "idle"

\* "Try again": setState({ hasError: false, error: undefined }); the children
\* are rendered again, which mounts a new provider
TryAgain ==
  /\ hasError
  /\ hasError' = FALSE
  /\ error' = None
  /\ AuthProviderMount
  /\ signOutReq' = OrphanedSignOut
  /\ rendered' = ErrorBoundaryRender(FALSE, RenderTree(route, None, TRUE))
  /\ showSkeletons' = FALSE
  /\ UNCHANGED <<svcSession, route, href, redirects, navVars>>

\* "Go home": window.location.href = '/'
GoHome ==
  /\ hasError
  /\ href' = HomePath
  /\ UNCHANGED <<svcVars, providerVars, boundaryVars, route, redirects, rendered,
               navVars, showSkeletons>>

\* the browser navigates to the location assigned to window.location.href:
\* the old document is discarded with everything mounted in it
PageUnload ==
  /\ href # None
  /\ rendered # NothingRendered
  /\ hasError' = FALSE
  /\ error' = None
  /\ AuthProviderUnmount
  /\ signOutReq' = OrphanedSignOut
  /\ rendered' = NothingRendered
  /\ mobileMenuOpen' = FALSE
  /\ showSkeletons' = FALSE
  /\ uncaught' = FALSE
  /\ UNCHANGED <<svcSession, route, href, redirects>>

\* the new document boots the application on the new location
PageLoad ==
  /\ href # None
  /\ rendered = NothingRendered
  /\ route' = href
  /\ href' = None
  /\ AuthProviderMount
  /\ FirstCommit(href)
  /\ UNCHANGED <<svcSession, signOutReq, boundaryVars, navVars>>

\* Dashboard: the "Trigger Error Boundary" button; triggerError throws out of
\* the click handler
triggerError ==
  /\ rendered.out = "DashboardLayout"
  /\ uncaught' = TRUE
  /\ UNCHANGED <<svcVars, providerVars, boundaryVars, browserVars,
               mobileMenuOpen, showSkeletons>>

\* Dashboard: the "Show/Hide Skeleton Loaders" button:
\* setShowSkeletons(!showSkeletons)
setShowSkeletons ==
  /\ rendered.out = "DashboardLayout"
  /\ showSkeletons' = ~showSkeletons
  /\ UNCHANGED <<svcVars, providerVars, boundaryVars, browserVars, navVars>>

----------------------------------------------------------------------------
(* Navigation bar *)

\* the mobile menu button
NavToggleMenu ==
  /\ rendered.nav # "hidden"
  /\ mobileMenuOpen' = ~mobileMenuOpen
  /\ UNCHANGED <<svcVars, providerVars, boundaryVars, browserVars,
               showSkeletons, uncaught>>

\* the links the bar shows: the logo always, the dashboard to a signed-in
\* user, the login page otherwise
NavTargets ==
  IF rendered.nav = "signedIn" THEN {HomePath, DashboardPath}
  ELSE IF rendered.nav = "signedOut" THEN {HomePath, LoginPath}
  ELSE {}

\* a <Link> of the desktop bar: client-side navigation
NavLink ==
  \E to \in NavTargets :
    /\ to # route
    /\ route' = to
    /\ Commit(to, session, loading)
    /\ UNCHANGED <<svcVars, providerVars, boundaryVars, navVars>>

\* a <Link> of the mobile menu: also closes the menu
NavMobileLink ==
  \E to \in NavTargets \ {HomePath} :
    /\ mobileMenuOpen
    /\ to # route
    /\ route' = to
    /\ Commit(to, session, loading)
    /\ mobileMenuOpen' = FALSE
    /\ UNCHANGED <<svcVars, providerVars, boundaryVars, uncaught>>

\* faulty variant: the button also navigates to the landing page
NavSignOutThenHome ==
  /\ rendered.nav = "signedIn"
  /\ signOutReq = "idle"
  /\ signOutReq' = "pending"
  /\ href' = HomePath
  /\ UNCHANGED <<svcSession, events, subscribed, initReq, initResult>>
  /\ UNCHANGED <<providerVars, boundaryVars, route, redirects, rendered,
               navVars, showSkeletons>>

\* desktop "Sign Out" button: onClick={signOut}
NavSignOut ==
  /\ rendered.nav = "signedIn"
  /\ signOut
  /\ UNCHANGED navVars

\* mobile "Sign Out" button: signOut(); setMobileMenuOpen(false)
NavMobileSignOut ==
  /\ rendered.nav = "signedIn"
  /\ mobileMenuOpen
  /\ signOut
  /\ mobileMenuOpen' = FALSE
  /\ UNCHANGED uncaught

----------------------------------------------------------------------------

Next ==
  \/ SvcSignIn
  \/ SvcSessionEnds
  \/ SvcTokenRefresh
  \/ SvcAnswerInit
  \/ SvcConfirmSignOut
  \/ SvcFailSignOut
  \/ InitComplete
  \/ InitFailed
  \/ onAuthStateChange
  \/ SignOutReturn
  \/ RenderThrows
  \/ TryAgain
  \/ GoHome
  \/ PageUnload
  \/ PageLoad
  \/ triggerError
  \/ setShowSkeletons
  \/ NavToggleMenu
  \/ NavLink
  \/ NavMobileLink
  \/ NavSignOut
  \/ NavMobileSignOut

Spec ==
  Init /\ [][Next]_vars

\* the event loop runs a queued listener notification
FairSpec ==
  Spec /\ WF_vars(onAuthStateChange)

----------------------------------------------------------------------------
(* Properties *)

\* a guarded view is on the screen
GuardedViewRendered ==
  rendered.screen = "tree" /\ rendered.out # "unmounted"

\* C1: a guarded view rendered while the loading flag is unknown shows only
\* the loading placeholder: no protected content, no redirect to the login
\* path in that render.
C1_LoadingShowsOnlyPlaceholder ==
  (GuardedViewRendered /\ rendered.loading)
    => /\ rendered.out = "Loading"
       /\ rendered.redirect = None
       /\ rendered.email = None

\* the Dashboard is rendered with loading unknown while the identity service
\* does hold a session
C1_Witness ==
  /\ GuardedViewRendered
  /\ rendered.loading
  /\ rendered.out = "Loading"
  /\ svcSession # None
  /\ initReq = "ok"

\* C2: a guarded view rendered with loading resolved and no user assigns
\* /auth/login to window.location.href and renders nothing.
C2_NoSessionRedirectsToLogin ==
  (GuardedViewRendered /\ ~rendered.loading /\ rendered.user = None)
    => /\ rendered.out = "null"
       /\ rendered.redirect = LoginPath
       /\ href = LoginPath
       /\ rendered.email = None

C2_Witness ==
  /\ GuardedViewRendered
  /\ ~rendered.loading
  /\ rendered.user = None
  /\ href = LoginPath
  /\ redirects = 1

\* C3 (as claimed): once the guarded view has resolved without a session the
\* redirect to /auth/login is issued exactly one time, whatever re-renders
\* and identity-service events follow on that page.
C3_RedirectIssuedExactlyOnce ==
  /\ redirects <= 1
  /\ rendered.out = "null" => redirects = 1

\* C4: a guarded view rendered with loading resolved and a user present
\* renders the protected content with the email of the current session's
\* user, and that render issues no redirect.
C4_SessionRendersContent ==
  (GuardedViewRendered /\ ~rendered.loading /\ rendered.user # None)
    => /\ rendered.out = "DashboardLayout"
       /\ session # None
       /\ rendered.email = Email(SessionUser(session))
       /\ rendered.redirect = None

\* the Dashboard shows the second user's email after the first user's session
\* was replaced
C4_Witness ==
  /\ rendered.out = "DashboardLayout"
  /\ rendered.email = "b@example.com"
  /\ session = "session2"
  /\ settledBy = "event"
  /\ initReq = "done"

\* C5 (as claimed): once a notification has been handled in this mount, the
\* provider's session is the session of the notification handled last;
\* nothing older, the answer to the initial request included, replaces it.
C5_SessionIsLastEvent ==
  lastEvent # NoEvent => session = lastEvent

\* C6: within one mount the loading flag starts unknown and, once resolved,
\* stays resolved under every order of initial answer (success or failure)
\* and notifications.
C6_LoadingResolvesOnce ==
  [][ /\ (~subscribed /\ subscribed') => loading'
      /\ (subscribed /\ subscribed' /\ ~loading) => ~loading'
    ]_vars

\* on the login page, after a guard redirect and a page load, the new mount
\* has handled a notification and the answer to its session request; the
\* flag is resolved
C6_Witness ==
  /\ redirects = 0
  /\ route = LoginPath
  /\ ~loading
  /\ lastEvent # NoEvent
  /\ initReq = "done"
  /\ session = None

\* C7: once the failure of the initial session request has been handled the
\* provider holds (no session, resolved), and a mounted guarded view has
\* rendered nothing and redirected to /auth/login.
C7_InitFailureSettlesLoggedOut ==
  settledBy = "initFail"
    => /\ session = None
       /\ ~loading
       /\ route = DashboardPath
            => /\ rendered.out = "null"
               /\ rendered.redirect = LoginPath
               /\ href = LoginPath

C7_Witness ==
  /\ settledBy = "initFail"
  /\ svcSession # None
  /\ route = DashboardPath
  /\ href = LoginPath
  /\ ~loading

\* the "no session" notification is queued for the listener
NoSessionQueued ==
  \E i \in 1..Len(events) : events[i] = None

\* C8: when the identity service confirms a sign-out it pushes the "no
\* session" notification to the registered listener, and the listener of the
\* same mount eventually handles it, leaving the provider's session absent
\* (unless that mount has ended meanwhile).
C8_SignOutEventuallyAbsent ==
  /\ [][ (signOutReq = "pending" /\ signOutReq' = "ok" /\ subscribed)
          => (NoSessionQueued' /\ subscribed') ]_vars
  /\ (NoSessionQueued /\ subscribed)
       ~> \/ (session = None /\ lastEvent = None)
          \/ ~subscribed

\* a signed-in user's sign-out is confirmed and its notification is queued
C8_Witness ==
  /\ signOutReq = "ok"
  /\ session # None
  /\ subscribed
  /\ events # <<>>
  /\ rendered.nav = "signedIn"

\* C9: the sign-out operation only hands the request to the identity
\* service: the step that issues it changes neither the cached session nor
\* the loading flag, and navigates nowhere.
C9_SignOutOnlyRequests ==
  [][ (signOutReq = "idle" /\ signOutReq' = "pending")
        => UNCHANGED <<session, loading, route, href, redirects, rendered,
                       svcSession, events, hasError>>
    ]_vars

C9_Witness ==
  /\ signOutReq = "pending"
  /\ session # None
  /\ svcSession # None
  /\ href = None
  /\ rendered.nav = "signedIn"

\* C10: when the sign-out request fails, neither the failure nor its return
\* to the provider changes the session or the loading flag, and no error is
\* surfaced: a signed-in user stays signed in on the screen.
C10_FailedSignOutChangesNothing ==
  [][ ( \/ (signOutReq = "pending" /\ signOutReq' = "fail")
        \/ (signOutReq = "fail" /\ signOutReq' = "idle" /\ subscribed /\ subscribed') )
        => UNCHANGED <<session, loading, rendered, hasError, error, uncaught,
                       href, route>>
    ]_vars

\* the failed sign-out has returned and the user is still signed in
C10_Witness ==
  /\ signOutReq = "fail"
  /\ session # None
  /\ ~loading
  /\ rendered.nav = "signedIn"
  /\ ~hasError

\* C11: when the listener handles a pushed session while the mounted guarded
\* view is in the resolved-without-session state (it rendered null, the
\* redirect is pending), that same view renders the protected content for
\* the pushed session's user: the route, the provider and the view's own
\* state are kept, nothing is mounted again.
C11_PushedSessionRendersContent ==
  [][ ( /\ rendered.out = "null"
        /\ subscribed /\ subscribed'
        /\ events # <<>>
        /\ Head(events) # None
        /\ events' = Tail(events) )
        => /\ rendered'.out = "DashboardLayout"
           /\ rendered'.email = Email(SessionUser(Head(events)))
           /\ rendered'.redirect = None
           /\ showSkeletons' = showSkeletons
           /\ route' = route
           /\ ~hasError'
    ]_vars

\* the Dashboard shows the content with its skeleton demo switched on while
\* the redirect it issued earlier on this page is still pending
C11_Witness ==
  /\ rendered.out = "DashboardLayout"
  /\ href = LoginPath
  /\ redirects >= 1
  /\ lastEvent \in Sessions
  /\ showSkeletons

\* C12: a render-time exception under the root route puts the boundary into
\* the error state holding the thrown error, and while it is in that state
\* the failure screen (with "Try again") is on the screen, never a blank
\* page; leaving the error state, by "Try again", clears the error and
\* renders the children again (a new provider, its session request issued),
\* unless the page itself is being left.
C12_BoundaryCatchesAndRetries ==
  /\ [] ( /\ error # None => hasError
          /\ hasError => /\ error \in Errors
                         /\ rendered = ErrorScreen
                         /\ rendered.screen # "blank" )
  /\ [][ (hasError /\ ~hasError')
          => /\ error' = None
             /\ \/ /\ rendered' = RenderTree(route, None, TRUE)
                   /\ subscribed'
                   /\ initReq' = "pending"
                \/ /\ href # None
                   /\ rendered' = NothingRendered
        ]_vars

\* a render error was caught on the dashboard of a signed-in user
C12_Witness ==
  /\ hasError
  /\ error = "render error"
  /\ rendered = ErrorScreen
  /\ route = DashboardPath
  /\ svcSession # None
  /\ ~subscribed

\* C13: for as long as the initial session request of the current mount is
\* outstanding (issued and not yet completed at the provider), the loading
\* flag is unknown, whatever notifications were pushed in the meantime.
\* (Each mount issues the request once: only AuthProviderMount makes it
\* pending.)
C13_UnknownWhileRequestOutstanding ==
  initReq \in {"pending", "ok", "fail"} => loading

\* the provider is mounted exactly while the boundary renders its children
ProviderMounted == rendered.screen = "tree"

\* C14: the change listener is registered exactly while the provider is
\* mounted; once the provider is torn down no step, whatever the identity
\* service does, queues a notification for it, invokes its callback or changes
\* its session or loading state; a remount starts with no notification and no
\* state left from the previous mount.
C14_TeardownDeregistersListener ==
  /\ [] (subscribed <=> ProviderMounted)
  /\ [][ (~ProviderMounted /\ ~ProviderMounted')
          => UNCHANGED <<events, session, loading, lastEvent, settledBy>> ]_vars
  /\ [][ (~ProviderMounted /\ ProviderMounted')
          => /\ events' = <<>>
             /\ session' = None
             /\ loading'
             /\ lastEvent' = NoEvent ]_vars

\* a second mount in the same document: the first one showed the dashboard of
\* a signed-in user, was torn down by a render error and mounted again
C14_Witness ==
  /\ ProviderMounted
  /\ subscribed
  /\ uncaught
  /\ loading
  /\ session = None
  /\ events = <<>>
  /\ svcSession # None
  /\ route = DashboardPath

\* C15: on the dashboard of a signed-in user, pressing "Trigger Error
\* Boundary" (triggerError throws) puts the boundary into the error state,
\* holding the thrown error, with the failure screen displayed.
C15_TriggerErrorShowsFailureScreen ==
  [][ (rendered.out = "DashboardLayout" /\ session # None /\ ~uncaught /\ uncaught')
      => /\ hasError'
         /\ error' \in Errors
         /\ rendered' = ErrorScreen ]_vars

\* C16: while hasError holds the children are not rendered: no provider is
\* mounted and no listener registered, no guarded view, no protected content,
\* and no step, whatever the identity service does, changes the screen or
\* issues a guard redirect (the location changes only by "Go home").  While
\* the document lives hasError becomes false only by "Try again", which mounts
\* the provider afresh with loading unknown and its session request issued;
\* otherwise the boundary ends with its document, when the page is left.
C16_NoChildrenWhileHasError ==
  /\ [] ( hasError => /\ ~ProviderMounted
                      /\ ~subscribed
                      /\ events = <<>>
                      /\ rendered.out = "unmounted"
                      /\ rendered.email = None
                      /\ rendered.redirect = None )
  /\ [][ (hasError /\ hasError')
          => /\ UNCHANGED <<rendered, redirects, session, loading, events>>
             /\ href' \in {href, HomePath} ]_vars
  /\ [][ (hasError /\ ~hasError' /\ rendered' # NothingRendered)
          => /\ ProviderMounted'
             /\ subscribed'
             /\ loading'
             /\ session' = None
             /\ initReq' = "pending"
             /\ rendered' = RenderTree(route, None, TRUE)
             /\ rendered'.redirect = None
             /\ rendered'.email = None ]_vars

\* the failure screen is up on the dashboard route, where the signed-in user's
\* content had been shown; the identity service holds no session any more and
\* "Go home" has been pressed
C16_Witness ==
  /\ hasError
  /\ rendered = ErrorScreen
  /\ route = DashboardPath
  /\ uncaught
  /\ svcSession = None
  /\ href = HomePath

====
